---- MODULE Spec2Model ----
(***************************************************************************)
(* poe_prompt_runner.py: read the first column of a table, send one        *)
(* request per (item, prompt) pair to the remote model, write one JSON     *)
(* file per pair and a summary.json at the end.                            *)
(*                                                                         *)
(* Text (Python str, file contents, paths) is a sequence of tokens; a      *)
(* token is a TLA+ string holding one character, or a literal of the       *)
(* source kept whole ("result_prompt", "_item", ...).                      *)
(***************************************************************************)
EXTENDS Integers, Sequences, FiniteSets, TLC

\* ------------------------------------------------------------------ bounds
MaxRows == 3
MaxLimit == 2
\* the index pairs a file name is compared against run over 0..NameRange
NameRange == 11

\* ------------------------------------------------------- text and numbers
Whitespace == {" ", "\t", "\n", "\r", "\f"}

RECURSIVE LStrip(_)
LStrip(s) ==
    IF s # <<>> /\ Head(s) \in Whitespace THEN LStrip(Tail(s)) ELSE s

RECURSIVE RStrip(_)
RStrip(s) ==
    IF s # <<>> /\ s[Len(s)] \in Whitespace
    THEN RStrip(SubSeq(s, 1, Len(s) - 1))
    ELSE s

\* str.strip() with only leading whitespace removed
Strip_lstrip_only(s) == LStrip(s)

\* str.strip()
Strip(s) == RStrip(LStrip(s))

Digit(d) == <<"0", "1", "2", "3", "4", "5", "6", "7", "8", "9">>[d + 1]

\* decimal rendering of a non-negative int, as str(n) and f"{n}" give it
RECURSIVE Str(_)
Str(n) == IF n < 10 THEN <<Digit(n)>> ELSE Str(n \div 10) \o <<Digit(n % 10)>>

RECURSIVE Concat(_)
Concat(ss) == IF ss = <<>> THEN <<>> ELSE Head(ss) \o Concat(Tail(ss))

\* sep.join(parts)
RECURSIVE Join(_, _)
Join(sep, parts) ==
    IF parts = <<>> THEN <<>>
    ELSE IF Len(parts) = 1 THEN parts[1]
    ELSE parts[1] \o sep \o Join(sep, Tail(parts))

\* ------------------------------------------------------------------- JSON
\* a JSON scalar of a record: a string, an int or None
JStr(s) == [t |-> "str", s |-> s, n |-> 0]
JInt(n) == [t |-> "int", s |-> <<>>, n |-> n]
JNull == [t |-> "null", s |-> <<>>, n |-> 0]

\* json.dumps escapes of one character (ensure_ascii=False)
JsonEscape(c) ==
    CASE c = "\"" -> <<"\\", "\"">>
      [] c = "\\" -> <<"\\", "\\">>
      [] c = "\n" -> <<"\\", "n">>
      [] c = "\t" -> <<"\\", "t">>
      [] c = "\r" -> <<"\\", "r">>
      [] c = "\f" -> <<"\\", "f">>
      [] OTHER -> <<c>>

JsonString(s) ==
    <<"\"">> \o Concat([i \in 1..Len(s) |-> JsonEscape(s[i])]) \o <<"\"">>

JsonScalar(v) ==
    CASE v.t = "str" -> JsonString(v.s)
      [] v.t = "int" -> Str(v.n)
      [] OTHER -> <<"null">>

\* newline and indentation of json.dumps(..., indent=2) at a nesting depth
Indent(depth) == <<"\n">> \o [i \in 1..(2 * depth) |-> " "]

\* a Python dict is the sequence of its <<key, value>> members in insertion
\* order; json.dumps(d, ensure_ascii=False, indent=2) at a nesting depth
JsonMember(m) == JsonString(<<m[1]>>) \o <<":", " ">> \o JsonScalar(m[2])

JsonDict(d, depth) ==
    IF d = <<>> THEN <<"{", "}">>
    ELSE <<"{">> \o Indent(depth + 1)
         \o Join(<<",">> \o Indent(depth + 1), [i \in 1..Len(d) |-> JsonMember(d[i])])
         \o Indent(depth) \o <<"}">>

JsonList(l, depth) ==
    IF l = <<>> THEN <<"[", "]">>
    ELSE <<"[">> \o Indent(depth + 1)
         \o Join(<<",">> \o Indent(depth + 1), [i \in 1..Len(l) |-> JsonDict(l[i], depth + 1)])
         \o Indent(depth) \o <<"]">>

\* value of a key of a dict
RECURSIVE Get(_, _)
Get(d, k) == IF Head(d)[1] = k THEN Head(d)[2] ELSE Get(Tail(d), k)

\* ------------------------------------------------------------- the inputs
\* a cell of the frame's first column: missing (NaN/None), a string, an int
NaCell == [kind |-> "na", s |-> <<>>, n |-> 0]
StrCell(s) == [kind |-> "str", s |-> s, n |-> 0]
IntCell(n) == [kind |-> "int", s |-> <<>>, n |-> n]

Cells == {NaCell, StrCell(<<" ", "\t">>), StrCell(<<" ", "A", " ", "b", "\t">>), IntCell(7)}

Columns == UNION {[1..n -> Cells] : n \in 0..MaxRows}

\* the frame read_csv / read_excel returns: its column count, its first column
Frames == {[ncols |-> 0, col |-> <<>>]} \cup {[ncols |-> 1, col |-> c] : c \in Columns}

PromptTexts == {<<>>, <<" ", "\n">>, <<" ", "S", "a", "y", " ", "h", "i", "\n">>}

\* args.limit: None, or the int given as --limit
NoLimit == [isNone |-> TRUE, k |-> 0]
Limits == {NoLimit} \cup {[isNone |-> FALSE, k |-> k] : k \in (-1)..MaxLimit}

\* message.content of the endpoint's reply: a text, or None
Responses == {JStr(<<"o", "k", "\"">>), JNull}

ArgsModel == <<"claude-haiku-4.5">>
OutputDir == <<"/", "outputs">>

NoColumnsError == "ValueError: Input table has no columns."
NoDataError == "ValueError: No data found in the first column."
NoPromptsError == "ValueError: No prompts found in prompt file."
RemoteError == "openai.APIError"
NoError == ""

\* ------------------------------------------------------ extract_first_column
IsNa(cell) == cell.kind = "na"

\* Series.dropna()
DropNa(col) == SelectSeq(col, LAMBDA c : ~IsNa(c))

\* Series.astype(str) of one value
AsStr(cell) == IF cell.kind = "int" THEN Str(cell.n) ELSE cell.s

NonBlank(s) == Strip(s) # <<>>

\* [value.strip() for value in first_col if value.strip()]
StripValues(col) ==
    LET texts == [i \in 1..Len(col) |-> AsStr(col[i])]
        kept == SelectSeq(texts, NonBlank)
    IN  [i \in 1..Len(kept) |-> Strip(kept[i])]

FirstColumnValues(frame) == StripValues(DropNa(frame.col))

\* `if not values` never raising
NoData_never(values) == FALSE

\* `if not values`
NoData(values) == values = <<>>

\* the exception extract_first_column raises on a frame, NoError when it returns
ExtractError(frame) ==
    IF frame.ncols = 0 THEN NoColumnsError
    ELSE IF NoData(FirstColumnValues(frame)) THEN NoDataError
    ELSE NoError

\* the end of the slice s[:k] of a sequence of length n (a negative k counts
\* from the end, and both ends clamp)
SliceStop(n, k) ==
    IF k < 0 THEN (IF n + k < 0 THEN 0 ELSE n + k)
    ELSE (IF k > n THEN n ELSE k)

\* the limit applied as `if args.limit:`, which skips a limit of 0
PySliceTo_truthy(s, k) == IF k = 0 THEN s ELSE SubSeq(s, 1, SliceStop(Len(s), k))

\* items[: args.limit]
PySliceTo(s, k) == SubSeq(s, 1, SliceStop(Len(s), k))

\* -------------------------------------------------------------- load_prompts
\* `if not text` never raising
NoPrompts_never(text) == FALSE

\* `if not text`
NoPrompts(text) == text = <<>>

LoadPromptsError(file_text) ==
    IF NoPrompts(Strip(file_text)) THEN NoPromptsError ELSE NoError

LoadPromptsResult(file_text) == <<Strip(file_text)>>

\* ---------------------------------------------------------------- run_prompt
\* f"{prompt}\n\nCount value: {item}"
RequestContent(prompt, item) == prompt \o <<"\n", "\n", "Count value: ">> \o item

\* ------------------------------------------------------------- export_result
\* file name without the item index
Filename_no_item(prompt_idx, item_idx) ==
    <<"result_prompt">> \o Str(prompt_idx + 1) \o <<".json">>

\* f"result_prompt{prompt_idx + 1}_item{item_idx + 1}.json"
Filename(prompt_idx, item_idx) ==
    <<"result_prompt">> \o Str(prompt_idx + 1) \o <<"_item">> \o Str(item_idx + 1) \o <<".json">>

\* output_dir / filename
PathJoin(dir, name) == dir \o <<"/">> \o name

ResultPath(prompt_idx, item_idx) == PathJoin(OutputDir, Filename(prompt_idx, item_idx))

SummaryPath == PathJoin(OutputDir, <<"summary.json">>)

\* path.write_text(text): the file system after the write
WriteText(fs, path, text) ==
    [p \in DOMAIN fs \cup {path} |-> IF p = path THEN text ELSE fs[p]]

\* datetime.utcnow().isoformat() + "Z", the clock reading rendered as text
Timestamp(now) == Str(now) \o <<"Z">>

\* the record dict of main
MakeRecordDict(prompt_idx, item_idx, item, prompt, model, resp, now) ==
    << <<"prompt_index", JInt(prompt_idx + 1)>>,
       <<"item_index", JInt(item_idx + 1)>>,
       <<"table_value", JStr(item)>>,
       <<"prompt", JStr(prompt)>>,
       <<"model", JStr(model)>>,
       <<"response", resp>>,
       <<"timestamp", JStr(Timestamp(now))>> >>

\* the summary entry built with the response left out of the copy
SummaryEntry_drops_response(rec, path) ==
    SelectSeq(rec, LAMBDA m : m[1] # "response") \o << <<"file", JStr(path)>> >>

\* {**record, "file": str(result_path)}
SummaryEntry(rec, path) == rec \o << <<"file", JStr(path)>> >>

\* ---------------------------------------------------------------- the state
VARIABLES
    frame,        \* the table as pandas reads it
    prompt_text,  \* the content of the prompt file
    limit,        \* args.limit
    pc,           \* where main is
    err,          \* the exception that ended the run, NoError while there is none
    items,        \* main: items
    prompts,      \* main: prompts
    item_idx,     \* main: index of the outer loop
    prompt_idx,   \* main: index of the inner loop
    response,     \* main: response
    record,       \* main: record
    result_path,  \* main: result_path
    summary,      \* main: summary
    files,        \* the files under output_dir: path -> text
    writes,       \* the paths passed to write_text, in the order of the calls
    requests,     \* the requests sent to the endpoint, in the order of the calls
    clock         \* the UTC clock

vars == <<frame, prompt_text, limit, pc, err, items, prompts, item_idx, prompt_idx,
          response, record, result_path, summary, files, writes, requests, clock>>

inputs == <<frame, prompt_text, limit>>

\* main up to line 103: arguments parsed, output_dir created and empty
Init ==
    /\ frame \in Frames
    /\ prompt_text \in PromptTexts
    /\ limit \in Limits
    /\ pc = "extract"
    /\ err = NoError
    /\ items = <<>>
    /\ prompts = <<>>
    /\ item_idx = 0
    /\ prompt_idx = 0
    /\ response = JNull
    /\ record = <<>>
    /\ result_path = <<>>
    /\ summary = <<>>
    /\ files = <<>>
    /\ writes = <<>>
    /\ requests = <<>>
    /\ clock = 0

\* an uncaught exception ends main
Raise(e) ==
    /\ pc' = "error"
    /\ err' = e

\* items = extract_first_column(table_path)
ExtractFirstColumn ==
    /\ pc = "extract"
    /\ IF ExtractError(frame) # NoError
       THEN /\ Raise(ExtractError(frame))
            /\ UNCHANGED items
       ELSE /\ items' = FirstColumnValues(frame)
            /\ pc' = "limit"
            /\ UNCHANGED err
    /\ UNCHANGED <<inputs, prompts, item_idx, prompt_idx, response, record,
                   result_path, summary, files, writes, requests, clock>>

\* if args.limit is not None: items = items[: args.limit]
ApplyLimit ==
    /\ pc = "limit"
    /\ items' = IF limit.isNone THEN items ELSE PySliceTo(items, limit.k)
    /\ pc' = "load"
    /\ UNCHANGED <<inputs, err, prompts, item_idx, prompt_idx, response, record,
                   result_path, summary, files, writes, requests, clock>>

\* prompts = load_prompts(prompt_path)
LoadPrompts ==
    /\ pc = "load"
    /\ IF LoadPromptsError(prompt_text) # NoError
       THEN /\ Raise(LoadPromptsError(prompt_text))
            /\ UNCHANGED prompts
       ELSE /\ prompts' = LoadPromptsResult(prompt_text)
            /\ pc' = "client"
            /\ UNCHANGED err
    /\ UNCHANGED <<inputs, items, item_idx, prompt_idx, response, record,
                   result_path, summary, files, writes, requests, clock>>

\* client = build_client(); summary = []; the two loops start
BuildClient ==
    /\ pc = "client"
    /\ summary' = <<>>
    /\ item_idx' = 0
    /\ prompt_idx' = 0
    /\ pc' = "loop"
    /\ UNCHANGED <<inputs, err, items, prompts, response, record,
                   result_path, files, writes, requests, clock>>

\* the item loop stopping one item early
LoopDone_off_by_one == item_idx + 1 >= Len(items) \/ Len(prompts) = 0

\* the nested for loops have no pair left
LoopDone == item_idx >= Len(items) \/ Len(prompts) = 0

\* the request main sends for the current pair
CurrentRequest ==
    [item_idx |-> item_idx, prompt_idx |-> prompt_idx,
     content |-> RequestContent(prompts[prompt_idx + 1], items[item_idx + 1])]

\* response = run_prompt(...): the endpoint answers, after some time
RunPromptReturns ==
    /\ pc = "loop"
    /\ ~LoopDone
    /\ \E r \in Responses, dt \in 0..1 :
          /\ response' = r
          /\ clock' = clock + dt
    /\ requests' = Append(requests, CurrentRequest)
    /\ pc' = "record"
    /\ UNCHANGED <<inputs, err, items, prompts, item_idx, prompt_idx, record,
                   result_path, summary, files, writes>>

\* a failure of the remote call logged, the run going on with no response
RunPromptRaises_logged ==
    /\ pc = "loop"
    /\ ~LoopDone
    /\ requests' = Append(requests, CurrentRequest)
    /\ err' = RemoteError
    /\ response' = JNull
    /\ pc' = "record"
    /\ UNCHANGED <<inputs, items, prompts, item_idx, prompt_idx, record,
                   result_path, summary, files, writes, clock>>

\* a failure of the remote call answered by sending the request again
RunPromptRaises_retried ==
    /\ pc = "loop"
    /\ ~LoopDone
    /\ Len(requests) <= MaxRows
    /\ requests' = Append(requests, CurrentRequest)
    /\ UNCHANGED <<inputs, pc, err, items, prompts, item_idx, prompt_idx, response,
                   record, result_path, summary, files, writes, clock>>

\* response = run_prompt(...): the call raises (transport, endpoint, no choice)
RunPromptRaises ==
    /\ pc = "loop"
    /\ ~LoopDone
    /\ requests' = Append(requests, CurrentRequest)
    /\ Raise(RemoteError)
    /\ UNCHANGED <<inputs, items, prompts, item_idx, prompt_idx, response, record,
                   result_path, summary, files, writes, clock>>

\* record = {...}
MakeRecord ==
    /\ pc = "record"
    /\ record' = MakeRecordDict(prompt_idx, item_idx, items[item_idx + 1],
                                prompts[prompt_idx + 1], ArgsModel, response, clock)
    /\ pc' = "export"
    /\ UNCHANGED <<inputs, err, items, prompts, item_idx, prompt_idx, response,
                   result_path, summary, files, writes, requests, clock>>

\* result_path = export_result(output_dir, prompt_idx, item_idx, record)
ExportResult ==
    /\ pc = "export"
    /\ LET path == ResultPath(prompt_idx, item_idx)
       IN  /\ files' = WriteText(files, path, JsonDict(record, 0))
           /\ writes' = Append(writes, path)
           /\ result_path' = path
    /\ pc' = "append"
    /\ UNCHANGED <<inputs, err, items, prompts, item_idx, prompt_idx, response,
                   record, summary, requests, clock>>

\* the next (item_idx, prompt_idx) of the nested enumerate loops
NextPair(i, p) ==
    IF p + 1 < Len(prompts) THEN <<i, p + 1>> ELSE <<i + 1, 0>>

\* summary.append({**record, "file": str(result_path)}), then the loops step
AppendSummary ==
    /\ pc = "append"
    /\ summary' = Append(summary, SummaryEntry(record, result_path))
    /\ item_idx' = NextPair(item_idx, prompt_idx)[1]
    /\ prompt_idx' = NextPair(item_idx, prompt_idx)[2]
    /\ pc' = "loop"
    /\ UNCHANGED <<inputs, err, items, prompts, response, record, result_path,
                   files, writes, requests, clock>>

\* summary_path.write_text(json.dumps(summary, ...)); print(...)
WriteSummary ==
    /\ pc = "loop"
    /\ LoopDone
    /\ files' = WriteText(files, SummaryPath, JsonList(summary, 0))
    /\ writes' = Append(writes, SummaryPath)
    /\ pc' = "done"
    /\ UNCHANGED <<inputs, err, items, prompts, item_idx, prompt_idx, response,
                   record, result_path, summary, requests, clock>>

Next ==
    \/ ExtractFirstColumn
    \/ ApplyLimit
    \/ LoadPrompts
    \/ BuildClient
    \/ RunPromptReturns
    \/ RunPromptRaises
    \/ MakeRecord
    \/ ExportResult
    \/ AppendSummary
    \/ WriteSummary

Spec == Init /\ [][Next]_vars

\* ------------------------------------------------------- what the claims use
\* a first-column value that is present and holds a non-whitespace character
Usable(cell) ==
    /\ cell.kind # "na"
    /\ \E i \in 1..Len(AsStr(cell)) : AsStr(cell)[i] \notin Whitespace

\* the rows of the table whose first-column value is usable
KeptRows == {i \in 1..Len(frame.col) : Usable(frame.col[i])}

\* the position among the kept rows of the kept row i
Rank(i) == Cardinality({j \in KeptRows : j <= i})

\* t is s without its leading and trailing whitespace
IsTrimOf(t, s) ==
    /\ t # <<>>
    /\ t[1] \notin Whitespace
    /\ t[Len(t)] \notin Whitespace
    /\ \E a \in 0..Len(s) :
          /\ a + Len(t) <= Len(s)
          /\ t = SubSeq(s, a + 1, a + Len(t))
          /\ \A i \in 1..a : s[i] \in Whitespace
          /\ \A i \in (a + Len(t) + 1)..Len(s) : s[i] \in Whitespace

PromptBlank == \A i \in 1..Len(prompt_text) : prompt_text[i] \in Whitespace

\* the paths of the result files written so far, in order
ResultWrites == SelectSeq(writes, LAMBDA p : p # SummaryPath)

\* a summary entry with its "file" member removed
WithoutFile(entry) == SelectSeq(entry, LAMBDA m : m[1] # "file")

\* the j-th (item_idx, prompt_idx) pair, 1-based, items outside and prompts inside
PairAt(j) == <<(j - 1) \div Len(prompts), (j - 1) % Len(prompts)>>

\* C1: a run with no row limit that ends normally on a table with N usable
\* values and M prompts has made N*M result writes, all to distinct paths, then
\* one write of summary.json, and the summary list has N*M entries.
C1_ResultFileCount ==
    (pc = "done" /\ limit.isNone) =>
        LET n == Cardinality(KeptRows) * Len(prompts)
        IN  /\ Len(writes) = n + 1
            /\ writes[n + 1] = SummaryPath
            /\ \A a \in 1..n : writes[a] # SummaryPath
            /\ \A a, b \in 1..n : a # b => writes[a] # writes[b]
            /\ Cardinality(DOMAIN files) = n + 1
            /\ Len(summary) = n
            /\ files[SummaryPath] = JsonList(summary, 0)

C1_Witness ==
    /\ pc = "done"
    /\ limit.isNone
    /\ Cardinality(KeptRows) = 2
    /\ Len(frame.col) = 3
    /\ Len(writes) = 3

\* C2: the text of the result file a summary entry names is the JSON text of
\* that entry without its "file" member, in every state, and summary.json holds
\* the JSON text of those entries.
C2_FileMatchesSummaryEntry ==
    /\ \A k \in 1..Len(summary) :
          LET path == Get(summary[k], "file").s
          IN  /\ path \in DOMAIN files
              /\ files[path] = JsonDict(WithoutFile(summary[k]), 0)
              /\ Len(WithoutFile(summary[k])) = 7
    /\ pc = "done" => files[SummaryPath] = JsonList(summary, 0)

C2_Witness ==
    /\ pc = "done"
    /\ Len(summary) = 2
    /\ Get(summary[1], "response") # Get(summary[2], "response")
    /\ Get(summary[1], "timestamp") # Get(summary[2], "timestamp")

\* C6: extract_first_column returns one item per usable row, in table order,
\* each the row's text without leading and trailing whitespace; missing and
\* blank rows give no item and equal values are all kept.
C6_ExtractFirstColumn ==
    pc = "limit" =>
        /\ Len(items) = Cardinality(KeptRows)
        /\ \A i \in KeptRows : IsTrimOf(items[Rank(i)], AsStr(frame.col[i]))

C6_Witness ==
    /\ pc = "limit"
    /\ Len(frame.col) = 3
    /\ ~Usable(frame.col[2])
    /\ items = << <<"A", " ", "b">>, <<"A", " ", "b">> >>

\* the number of items a row limit of k leaves of n: the first k, all when k > n
FirstK(k, n) == IF k <= 0 THEN 0 ELSE IF k > n THEN n ELSE k

\* the result paths of the items 1..k
PathsOfFirst(k) ==
    {ResultPath(p, i) : p \in 0..(Len(prompts) - 1), i \in 0..(k - 1)}

\* what C3 says of a run with --limit K
LimitKeepsFirstK ==
    LET k == FirstK(limit.k, Cardinality(KeptRows))
    IN  /\ pc \in {"load", "client", "loop", "record", "export", "append", "done"} =>
              items = SubSeq(FirstColumnValues(frame), 1, k)
        /\ \A j \in 1..Len(requests) : requests[j].item_idx + 1 <= k
        /\ \A j \in 1..Len(ResultWrites) : ResultWrites[j] \in PathsOfFirst(k)
        /\ pc = "done" =>
              /\ Len(requests) = k * Len(prompts)
              /\ Len(ResultWrites) = k * Len(prompts)

\* C3: for every integer row limit K, main processes exactly the first K items
\* of extract_first_column's result (all when K exceeds their number), in
\* order, and sends no request and writes no file for a later item.
C3_LimitFirstK == ~limit.isNone => LimitKeepsFirstK

\* C3 for the limits K >= 0: these the code handles as the claim says
C3_NonNegativeLimit == (~limit.isNone /\ limit.k >= 0) => LimitKeepsFirstK

\* C4: when every first-column value is missing or blank, the run ends with
\* the error extract_first_column raises, with no request sent and no file
\* written.
C4_EmptyColumnRaises ==
    (frame.ncols = 1 /\ KeptRows = {} /\ pc # "extract") =>
        /\ pc = "error"
        /\ err = NoDataError
        /\ ~ENABLED Next
        /\ requests = <<>>
        /\ writes = <<>>
        /\ DOMAIN files = {}

C4_Witness ==
    /\ pc = "error"
    /\ err = NoDataError
    /\ Len(frame.col) = 3
    /\ frame.col[1].kind = "str"
    /\ frame.col[2].kind = "na"
    /\ ~PromptBlank

\* C5: when run_prompt fails for the k-th pair the run ends there: the k-1
\* earlier result files are in place with the text written, no file exists for
\* the k-th or a later pair, nothing more is requested or written, and
\* summary.json is not written.
C5_RemoteFailureStopsRun ==
    err = RemoteError =>
        LET k == Len(requests)
        IN  /\ pc = "error"
            /\ ~ENABLED Next
            /\ k >= 1
            /\ Len(writes) = k - 1
            /\ Len(summary) = k - 1
            /\ \A j \in 1..(k - 1) :
                  /\ writes[j] = ResultPath(requests[j].prompt_idx, requests[j].item_idx)
                  /\ files[writes[j]] = JsonDict(WithoutFile(summary[j]), 0)
            /\ DOMAIN files = {writes[j] : j \in 1..(k - 1)}
            /\ ResultPath(requests[k].prompt_idx, requests[k].item_idx) \notin DOMAIN files
            /\ SummaryPath \notin DOMAIN files

C5_Witness ==
    /\ pc = "error"
    /\ err = RemoteError
    /\ Len(requests) = 3
    /\ Cardinality(DOMAIN files) = 2

\* C7: the result file name is fixed by the 1-based (prompt index, item index)
\* pair and differs for different pairs, no write of a run lands on a file the
\* run wrote before, and the indices in a record are those in its file name.
C7_FileNameInjective ==
    /\ pc = "export" =>
          \A p \in 0..NameRange, i \in 0..NameRange :
              Filename(p, i) = Filename(prompt_idx, item_idx) =>
                  (p = prompt_idx /\ i = item_idx)
    /\ Cardinality(DOMAIN files) = Len(writes)
    /\ \A a, b \in 1..Len(writes) : a # b => writes[a] # writes[b]
    /\ \A k \in 1..Len(summary) :
          Get(summary[k], "file").s =
              OutputDir \o <<"/", "result_prompt">> \o Str(Get(summary[k], "prompt_index").n)
                  \o <<"_item">> \o Str(Get(summary[k], "item_index").n) \o <<".json">>

C7_Witness ==
    /\ pc = "done"
    /\ Len(summary) = 3
    /\ Cardinality(DOMAIN files) = 4

\* C8: with an empty or whitespace-only prompt file the run ends in an error,
\* the one load_prompts raises whenever load_prompts is reached, with no request
\* sent and no file written; with any other prompt file load_prompts returns a
\* non-empty sequence of non-empty prompts.
C8_EmptyPromptFileRaises ==
    /\ (PromptBlank /\ pc \notin {"extract", "limit", "load"}) =>
          /\ pc = "error"
          /\ ~ENABLED Next
          /\ err \in {NoPromptsError, NoColumnsError, NoDataError}
          /\ (frame.ncols = 1 /\ KeptRows # {}) => err = NoPromptsError
          /\ requests = <<>>
          /\ writes = <<>>
          /\ DOMAIN files = {}
    /\ (~PromptBlank /\ pc \in {"client", "loop", "record", "export", "append", "done"}) =>
          /\ err = NoError
          /\ prompts # <<>>
          /\ \A i \in 1..Len(prompts) : IsTrimOf(prompts[i], prompt_text)

C8_Witness ==
    /\ pc = "error"
    /\ err = NoPromptsError
    /\ prompt_text = <<" ", "\n">>
    /\ Len(items) = 2

\* C9: the requests are sent one at a time, once per pair and never again, all
\* prompts of an item before the next item; a pair's result file is written
\* after its request returned and before the next request, and the summary
\* entries follow the same order.
C9_SequentialOrder ==
    /\ \A j \in 1..Len(requests) :
          /\ <<requests[j].item_idx, requests[j].prompt_idx>> = PairAt(j)
          /\ requests[j].content =
                 RequestContent(prompts[PairAt(j)[2] + 1], items[PairAt(j)[1] + 1])
    /\ Len(ResultWrites) <= Len(requests)
    /\ Len(requests) <= Len(ResultWrites) + 1
    /\ pc \in {"loop", "done"} => Len(ResultWrites) = Len(requests)
    /\ \A j \in 1..Len(ResultWrites) :
          ResultWrites[j] = ResultPath(PairAt(j)[2], PairAt(j)[1])
    /\ Len(summary) <= Len(ResultWrites)
    /\ Len(ResultWrites) <= Len(summary) + 1
    /\ \A j \in 1..Len(summary) :
          /\ Get(summary[j], "item_index").n = PairAt(j)[1] + 1
          /\ Get(summary[j], "prompt_index").n = PairAt(j)[2] + 1
    /\ pc = "done" => Len(requests) = Len(items) * Len(prompts)

C9_Witness ==
    /\ pc = "done"
    /\ Len(requests) = 3
    /\ Len(summary) = 3

\* what C10 says of the run once the table is read
LimitZeroRun ==
    /\ pc # "error"
    /\ err = NoError
    /\ requests = <<>>
    /\ ResultWrites = <<>>
    /\ pc = "done" \/ ENABLED Next
    /\ pc = "done" =>
          /\ writes = <<SummaryPath>>
          /\ DOMAIN files = {SummaryPath}
          /\ files[SummaryPath] = <<"[", "]">>

\* C10 as stated: with a usable value in the table and a row limit of 0 the
\* run raises no validation error, sends no request, writes no result file and
\* ends normally after writing a summary.json that holds an empty list.
C10_LimitZeroOriginal ==
    (KeptRows # {} /\ ~limit.isNone /\ limit.k = 0) => LimitZeroRun

\* C10 amended: the same, for a prompt file that is not empty or
\* whitespace-only.
C10_LimitZero ==
    (KeptRows # {} /\ ~limit.isNone /\ limit.k = 0 /\ ~PromptBlank) => LimitZeroRun

C10_Witness ==
    /\ pc = "done"
    /\ ~limit.isNone
    /\ limit.k = 0
    /\ Cardinality(KeptRows) = 2
    /\ files[SummaryPath] = <<"[", "]">>
====
